---- MODULE Spec2Model ----
(***************************************************************************)
(* Model of the DTU command execution and request-lifecycle engine         *)
(* (src/src/mem/dtu/dtu.cc).  Every handler of Dtu is one operator that    *)
(* maps the engine state (a record with the fields of class Dtu) to the    *)
(* state after the call; nested calls are nested operator applications, so *)
(* the atomic-mode call chains run inside the step of the handler that     *)
(* started them.  assert() and panic() end in a halted state.              *)
(***************************************************************************)
EXTENDS Integers, Sequences, FiniteSets, TLC

(* ------------------------------ bounds --------------------------------- *)
\* Addr is an unsigned machine word; the model uses words of AddrBits bits.
AddrBits == 16
\* largest number of endpoints a configuration has
MaxEndpoints == 2
\* largest value of the MSG_CNT register the peers drive it to
MaxMsgCnt == 1
\* at most this many forwarded cache-memory requests are outstanding
MaxNocReqs == 1
\* RegFile::reg_t is an unsigned machine word; the model decodes words of RegBits bits
RegBits == 6

(* --------------------------- program constants ------------------------- *)
IDLE == 0
SEND == 1
REPLY == 2
READ == 3
WRITE == 4
INC_READ_PTR == 5
WAKEUP_CORE == 6

\* permission flags of an endpoint (REQ_FLAGS)
FLAG_READ == 1
FLAG_WRITE == 2

numCmdOpcodeBits == 3

\* field widths of a NoC address {coreId, epId, offset}
NocOffsetBits == 13
NocEpIdBits == 1

RECURSIVE Pow2(_)
Pow2(n) == IF n = 0 THEN 1 ELSE 2 * Pow2(n - 1)

AddrMod == Pow2(AddrBits)
RegMod == Pow2(RegBits)

\* x & flag, for a single-bit flag
HasFlag(x, flag) == (x \div flag) % 2 = 1

(* ------------------------------- state --------------------------------- *)
VARIABLES
    atomicMode,          \* Dtu::atomicMode
    numEndpoints,        \* Dtu::numEndpoints
    memEp,               \* Dtu::memEp
    numCmdEpidBits,      \* Dtu::numCmdEpidBits
    regFile,             \* Dtu::regFile: [cmd, msgCnt, ep]
    cmdInProgress,       \* Dtu::cmdInProgress
    executeCommandEvent, \* number of times executeCommandEvent is scheduled
    xferUnit,            \* what the transfer unit does with the next memory response
    memReqs,             \* local-memory requests in flight (timed mode)
    nocReqs,             \* NoC requests in flight (timed mode)
    senderStates,        \* sender-state records allocated with new and not yet deleted
    threadContexts,      \* system->threadContexts.size()
    tcStatus,            \* system->threadContexts[0]->status()
    denySuspend,         \* system->threadContexts[0]->getCpuPtr()->_denySuspend
    counter,             \* DtuTest::tick, static int counter
    retryPkt,            \* DtuTest::retryPkt: <<>> for nullptr, or <<pkt>>
    tickEvent,           \* DtuTest::tickEvent is scheduled
    sentPkts,            \* the packets the port of DtuTest has accepted, in order
    halted,              \* "none", or the failed assert()/panic()
    out                  \* what the last handler did: calls made, result, packets

vars == <<atomicMode, numEndpoints, memEp, numCmdEpidBits, regFile, cmdInProgress,
          executeCommandEvent, xferUnit, memReqs, nocReqs, senderStates,
          threadContexts, tcStatus, denySuspend, counter, retryPkt, tickEvent,
          sentPkts, halted, out>>

\* the members of DtuTest
testerVars == <<counter, retryPkt, tickEvent, sentPkts>>

\* the engine state as one record, threaded through the handlers
Cur ==
    [regFile |-> regFile, cmdInProgress |-> cmdInProgress,
     executeCommandEvent |-> executeCommandEvent, xferUnit |-> xferUnit,
     memReqs |-> memReqs, nocReqs |-> nocReqs, senderStates |-> senderStates,
     tcStatus |-> tcStatus,
     denySuspend |-> denySuspend, halted |-> halted, out |-> out]

Commit(s) ==
    /\ regFile' = s.regFile
    /\ cmdInProgress' = s.cmdInProgress
    /\ executeCommandEvent' = s.executeCommandEvent
    /\ xferUnit' = s.xferUnit
    /\ memReqs' = s.memReqs
    /\ nocReqs' = s.nocReqs
    /\ senderStates' = s.senderStates
    /\ tcStatus' = s.tcStatus
    /\ denySuspend' = s.denySuspend
    /\ halted' = s.halted
    /\ out' = s.out
    /\ UNCHANGED <<atomicMode, numEndpoints, memEp, numCmdEpidBits, threadContexts,
                   testerVars>>

\* the record of a handler that has not done anything yet
NoOut(op) ==
    [op |-> op, calls |-> <<>>, ret |-> "void", nocSent |-> 0, memSent |-> 0,
     pktAddr |-> -1, cpuResp |-> -1, reqAddr |-> -1, msgCntAtAccess |-> -1,
     reqSize |-> -1, reqCmd |-> "none",
     cmdAtEntry |-> -1, epAtEntry |-> -1, busyAtEntry |-> FALSE, executed |-> FALSE,
     regAtEntry |-> [cmd |-> -1, msgCnt |-> -1, ep |-> <<>>],
     respWhen |-> -1, execWhen |-> -1, pushed |-> 0, popped |-> 0,
     commandWritten |-> FALSE, issued |-> <<>>, freed |-> <<>>, attached |-> 0,
     inType |-> "none", inError |-> FALSE, offered |-> <<>>,
     tcAtEntry |-> "none", complCmd |-> "none"]

Begin(s, op) == [s EXCEPT !.out = NoOut(op)]

\* a sub-unit or collaborator is invoked
Call(s, name) == [s EXCEPT !.out.calls = Append(@, name)]

\* assert(cond) failed, or panic()
Halt(s, why) == [s EXCEPT !.halted = why]

Running(s) == s.halted = "none"
(* ------------------------- NoC address (NocAddr) ----------------------- *)
\* NocAddr(coreId, epId, offset).getAddr(): the three fields packed in a word
NocAddr(coreId, epId, offset) ==
    ((coreId * Pow2(NocEpIdBits) + epId) * Pow2(NocOffsetBits) + offset) % AddrMod

\* NocAddr(addr).offset
NocAddrOffset(addr) == addr % Pow2(NocOffsetBits)

(* ----------------------------- register file --------------------------- *)
regFileBaseAddr == 8192
\* register indices behind regFileBaseAddr: MSG_CNT, COMMAND, then 4 per endpoint
EpFields == <<"TGT_COREID", "REQ_REM_ADDR", "REQ_REM_SIZE", "REQ_FLAGS">>

NumRegs == 2 + 4 * numEndpoints

\* RegFile::get(CmdReg::COMMAND), get(DtuReg::MSG_CNT), get(epId, EpReg)
RegGetCmd(s) == s.regFile.cmd
RegGetMsgCnt(s) == s.regFile.msgCnt
RegGetEp(s, epId, field) == s.regFile.ep[epId][field]

\* RegFile::set
RegSetCmd(s, v) == [s EXCEPT !.regFile.cmd = v]
RegSetMsgCnt(s, v) == [s EXCEPT !.regFile.msgCnt = v]
RegSetEp(s, epId, field, v) == [s EXCEPT !.regFile.ep[epId][field] = v]

\* RegFile::handleRequest(pkt, isCpuRequest): the access at register index
\* pkt.addr; the result is the state and the "command written" flag
RegFileHandleRequest(s, pkt) ==
    LET idx == pkt.addr
        s1 == IF ~pkt.isWrite THEN s
              ELSE IF idx = 0 THEN RegSetMsgCnt(s, pkt.value)
              ELSE IF idx = 1 THEN RegSetCmd(s, pkt.value)
              ELSE RegSetEp(s, (idx - 2) \div 4, EpFields[((idx - 2) % 4) + 1], pkt.value)
    IN [state |-> s1, commandWritten |-> pkt.isWrite /\ idx = 1]

(* ------------------------------ Dtu ------------------------------------ *)
\* x & y on unsigned words
RECURSIVE BitAnd(_, _)
BitAnd(x, y) ==
    IF x = 0 \/ y = 0 THEN 0
    ELSE (x % 2) * (y % 2) + 2 * BitAnd(x \div 2, y \div 2)

\* (reg_t)x << n and x >> n, for a shift count below the width of reg_t
Shl(x, n) == (x * Pow2(n)) % RegMod
Shr(x, n) == x \div Pow2(n)

\* Dtu::getCommand, the assertion on the configured widths
getCommandAssert == numCmdEpidBits + numCmdOpcodeBits <= RegBits

\* getCommand that shifts the register down without masking the epId field
getCommand_epIdUnmasked(s) ==
    LET opcodeMask == (Shl(1, numCmdOpcodeBits) - 1) % RegMod
        reg == RegGetCmd(s)
    IN [opcode |-> BitAnd(reg, opcodeMask),
        epId |-> Shr(reg, numCmdOpcodeBits)]

\* Dtu::getCommand: opcode in the low bits, epId in the next bits
getCommand(s) ==
    LET opcodeMask == (Shl(1, numCmdOpcodeBits) - 1) % RegMod
        epidMask == Shl((Shl(1, numCmdEpidBits) - 1) % RegMod, numCmdOpcodeBits)
        reg == RegGetCmd(s)
    IN [opcode |-> BitAnd(reg, opcodeMask),
        epId |-> Shr(BitAnd(reg, epidMask), numCmdOpcodeBits)]

\* finishCommand that clears the flag and leaves the command register
finishCommand_keepsRegister(s) ==
    IF ~s.cmdInProgress THEN Halt(s, "assert cmdInProgress")
    ELSE [s EXCEPT !.cmdInProgress = FALSE,
                   !.out.calls = Append(@, "finishCommand")]

\* Dtu::finishCommand
finishCommand(s) ==
    IF ~s.cmdInProgress THEN Halt(s, "assert cmdInProgress")
    ELSE [RegSetCmd(s, 0) EXCEPT !.cmdInProgress = FALSE,
                                 !.out.calls = Append(@, "finishCommand")]

\* wakeupCore with the test of the status inverted
wakeupCore_unlessSuspended(s) ==
    IF threadContexts = 0 THEN s
    ELSE IF s.tcStatus # "Suspended"
    THEN Call([s EXCEPT !.tcStatus = "Active"], "threadContext.activate")
    ELSE s

\* Dtu::wakeupCore
wakeupCore(s) ==
    IF threadContexts = 0 THEN s
    ELSE IF s.tcStatus = "Suspended"
    THEN Call([s EXCEPT !.tcStatus = "Active"], "threadContext.activate")
    ELSE s

\* updateSuspendablePin with an off-by-one test of the message count
updateSuspendablePin_offByOne(s) ==
    IF threadContexts = 0 THEN s
    ELSE [s EXCEPT !.denySuspend = (RegGetMsgCnt(s) > 1)]

\* updateSuspendablePin that only ever lowers the signal
updateSuspendablePin_onlyClears(s) ==
    IF threadContexts = 0 THEN s
    ELSE [s EXCEPT !.denySuspend = (@ /\ RegGetMsgCnt(s) > 0)]

\* Dtu::updateSuspendablePin
updateSuspendablePin(s) ==
    IF threadContexts = 0 THEN s
    ELSE [s EXCEPT !.denySuspend = (RegGetMsgCnt(s) > 0)]

(* ------------------------------ packets -------------------------------- *)
isWrite(pkt) == pkt.cmd = "WriteReq"
isRead(pkt) == pkt.cmd = "ReadReq"

\* Dtu::generateRequest: a packet of the DTU itself
generateRequest(paddr, size, cmd) ==
    [cmd |-> cmd, addr |-> paddr, size |-> size, origAddr |-> paddr,
     masterId |-> "dtu", isError |-> FALSE, senderState |-> <<>>]

\* Packet::pushSenderState / popSenderState: the newest record is on top
pushSenderState(pkt, ss) == [pkt EXCEPT !.senderState = <<ss>> \o @]
popSenderState(pkt) == [pkt EXCEPT !.senderState = Tail(@)]

\* new MemSenderState() / new NocSenderState() for a request of this kind
newSenderState(s, kind) ==
    [s EXCEPT !.senderStates = @ + 1, !.out.issued = Append(@, kind)]

\* delete senderState, of the record popped from pkt; out.attached counts
\* the records the packet still carries
deleteSenderState(s, kind, pkt) ==
    [s EXCEPT !.senderStates = @ - 1, !.out.freed = Append(@, kind),
              !.out.attached = @ + Len(pkt.senderState)]

RECURSIVE sendMemRequest(_, _, _, _)
RECURSIVE sendNocRequest(_, _, _, _)
RECURSIVE completeNocRequest(_, _)
RECURSIVE completeMemRequest(_, _)

(* ----------------- sub-units: what the engine calls -------------------- *)
\* the transfer unit has no chunk in flight
XferIdle == [type |-> "idle", nocType |-> "none"]

\* XferUnit::startTransfer: one chunk; its local-memory leg is a TRANSFER request
startTransfer(s, type, nocType, epId) ==
    LET s1 == Call([s EXCEPT !.xferUnit = [type |-> type, nocType |-> nocType]],
                   "xferUnit.startTransfer")
        cmd == IF type = "LOCAL_READ" THEN "ReadReq" ELSE "WriteReq"
    IN sendMemRequest(s1, generateRequest(0, 1, cmd), epId, "TRANSFER")

\* XferUnit::recvMemResponse: the chunk goes to the NoC, or the read is done
recvMemResponse(s, epId) ==
    LET s1 == Call([s EXCEPT !.xferUnit = XferIdle], "xferUnit.recvMemResponse")
    IN IF s.xferUnit = XferIdle THEN Halt(s1, "assert xferUnit")
       ELSE IF s.xferUnit.type = "LOCAL_READ"
       THEN sendNocRequest(s1, s.xferUnit.nocType,
                           generateRequest(0, 1, "WriteReq"), FALSE)
       ELSE finishCommand(s1)

\* MessageUnit::startTransmission: fetch the header from local memory
startTransmission(s, cmd) ==
    sendMemRequest(Call(s, "msgUnit.startTransmission"),
                   generateRequest(0, 1, "ReadReq"), cmd.epId, "HEADER")

\* MessageUnit::recvFromMem: hand the payload to the transfer unit
recvFromMem(s, cmd, pkt) ==
    startTransfer(Call(s, "msgUnit.recvFromMem"), "LOCAL_READ", "MESSAGE", cmd.epId)

\* MessageUnit::incrementReadPtr: one message less is pending
incrementReadPtr(s, epId) ==
    LET s1 == Call(s, "msgUnit.incrementReadPtr")
    IN IF RegGetMsgCnt(s1) = 0 THEN s1
       ELSE RegSetMsgCnt(s1, RegGetMsgCnt(s1) - 1)

\* MessageUnit::recvFromNoc: an inbound message is enqueued and counted
MsgUnit_recvFromNoc(s, pkt) ==
    LET s1 == Call(s, "msgUnit.recvFromNoc")
    IN updateSuspendablePin(RegSetMsgCnt(s1, RegGetMsgCnt(s1) + 1))

\* MemoryUnit::startRead / startWrite
startRead(s, cmd) ==
    sendNocRequest(Call(s, "memUnit.startRead"), "READ_REQ",
                   generateRequest(0, 1, "ReadReq"), FALSE)

startWrite(s, cmd) ==
    startTransfer(Call(s, "memUnit.startWrite"), "LOCAL_READ", "WRITE_REQ", cmd.epId)

\* MemoryUnit::readComplete: the data goes to local memory through the transfer unit
readComplete(s, pkt) ==
    startTransfer(Call(s, "memUnit.readComplete"), "LOCAL_WRITE", "none",
                  getCommand(s).epId)

\* MemoryUnit::writeComplete: the command retires
writeComplete(s, pkt) == finishCommand(Call(s, "memUnit.writeComplete"))

\* MemoryUnit::recvFromNoc / recvFunctionalFromNoc: serve an inbound request
MemUnit_recvFromNoc(s, pkt) == Call(s, "memUnit.recvFromNoc")
recvFunctionalFromNoc(s, pkt) == Call(s, "memUnit.recvFunctionalFromNoc")

(* ------------------- Dtu: requests and completions --------------------- *)
\* Dtu::sendMemRequest
sendMemRequest(s, pkt, epId, type) ==
    LET senderState == [epId |-> epId, mid |-> pkt.masterId, type |-> type]
        pkt1 == pushSenderState([pkt EXCEPT !.masterId = "dtu"], senderState)
        s1 == newSenderState([s EXCEPT !.out.memSent = @ + 1, !.out.pushed = @ + 1],
                             type)
    IN IF atomicMode THEN completeMemRequest(s1, pkt1)
       ELSE [s1 EXCEPT !.memReqs = Append(@, pkt1)]

\* sendNocRequest that queues the request in atomic mode as in timed mode
sendNocRequest_atomicDeferred(s, type, pkt, functional) ==
    LET senderState == [packetType |-> type]
        pkt1 == pushSenderState(pkt, senderState)
        s1 == newSenderState([s EXCEPT !.out.nocSent = @ + 1, !.out.pushed = @ + 1],
                             type)
    IN IF functional THEN completeNocRequest(s1, pkt1)
       ELSE [s1 EXCEPT !.nocReqs = Append(@, pkt1)]

\* Dtu::sendNocRequest
sendNocRequest(s, type, pkt, functional) ==
    LET senderState == [packetType |-> type]
        pkt1 == pushSenderState(pkt, senderState)
        s1 == newSenderState([s EXCEPT !.out.nocSent = @ + 1, !.out.pushed = @ + 1],
                             type)
    IN IF functional THEN completeNocRequest(s1, pkt1)
       ELSE IF atomicMode THEN completeNocRequest(s1, pkt1)
       ELSE [s1 EXCEPT !.nocReqs = Append(@, pkt1)]

\* completeNocRequest that deletes the sender state only on the paths that
\* do something with the packet
completeNocRequest_funcNotDeleted(s, pkt) ==
    LET senderState == Head(pkt.senderState)
        pkt1 == popSenderState(pkt)
        targetAddr == RegGetEp(s, numEndpoints - 1, "REQ_REM_ADDR")
        reqAddr == (NocAddrOffset(pkt1.addr) - targetAddr) % AddrMod
        s0 == [s EXCEPT !.out.complCmd = pkt1.cmd]
        s1 == IF senderState.packetType = "CACHE_MEM_REQ"
              THEN [Call(s0, "sendCacheMemResponse") EXCEPT
                        !.out.cpuResp = reqAddr, !.out.reqAddr = pkt1.origAddr]
              ELSE IF senderState.packetType # "CACHE_MEM_REQ_FUNC"
              THEN IF isWrite(pkt1) THEN writeComplete(s0, pkt1)
                   ELSE IF isRead(pkt1) THEN readComplete(s0, pkt1)
                   ELSE Halt(s0, "panic unexpected packet type")
              ELSE s0
    IN IF Running(s1) /\ senderState.packetType # "CACHE_MEM_REQ_FUNC"
       THEN deleteSenderState([s1 EXCEPT !.out.popped = @ + 1],
                              senderState.packetType, pkt1)
       ELSE s1

\* completeNocRequest that hands functional cache-memory completions to the
\* Memory Unit like the completions of a command
completeNocRequest_funcRouted(s, pkt) ==
    LET senderState == Head(pkt.senderState)
        pkt1 == popSenderState(pkt)
        targetAddr == RegGetEp(s, numEndpoints - 1, "REQ_REM_ADDR")
        reqAddr == (NocAddrOffset(pkt1.addr) - targetAddr) % AddrMod
        s0 == [s EXCEPT !.out.complCmd = pkt1.cmd]
        s1 == IF senderState.packetType = "CACHE_MEM_REQ"
              THEN [Call(s0, "sendCacheMemResponse") EXCEPT
                        !.out.cpuResp = reqAddr, !.out.reqAddr = pkt1.origAddr]
              ELSE IF isWrite(pkt1) THEN writeComplete(s0, pkt1)
              ELSE IF isRead(pkt1) THEN readComplete(s0, pkt1)
              ELSE Halt(s0, "panic unexpected packet type")
    IN IF Running(s1)
       THEN deleteSenderState([s1 EXCEPT !.out.popped = @ + 1],
                              senderState.packetType, pkt1)
       ELSE s1

\* Dtu::completeNocRequest
completeNocRequest(s, pkt) ==
    LET senderState == Head(pkt.senderState)
        pkt1 == popSenderState(pkt)
        targetAddr == RegGetEp(s, numEndpoints - 1, "REQ_REM_ADDR")
        reqAddr == (NocAddrOffset(pkt1.addr) - targetAddr) % AddrMod
        s0 == [s EXCEPT !.out.complCmd = pkt1.cmd]
        s1 == IF senderState.packetType = "CACHE_MEM_REQ"
              THEN [Call(s0, "sendCacheMemResponse") EXCEPT
                        !.out.cpuResp = reqAddr, !.out.reqAddr = pkt1.origAddr]
              ELSE IF senderState.packetType # "CACHE_MEM_REQ_FUNC"
              THEN IF isWrite(pkt1) THEN writeComplete(s0, pkt1)
                   ELSE IF isRead(pkt1) THEN readComplete(s0, pkt1)
                   ELSE Halt(s0, "panic unexpected packet type")
              ELSE s0
    IN IF Running(s1)
       THEN deleteSenderState([s1 EXCEPT !.out.popped = @ + 1],
                              senderState.packetType, pkt1)
       ELSE s1

\* Dtu::completeMemRequest
completeMemRequest(s, pkt) ==
    LET senderState == Head(pkt.senderState)
        pkt1 == [popSenderState(pkt) EXCEPT !.masterId = senderState.mid]
        s1 == IF pkt.isError THEN Halt(s, "assert !isError")
              ELSE IF senderState.type = "TRANSFER"
              THEN recvMemResponse(s, senderState.epId)
              ELSE IF senderState.type = "HEADER"
              THEN recvFromMem(s, getCommand(s), pkt1)
              ELSE s
    IN IF Running(s1)
       THEN deleteSenderState([s1 EXCEPT !.out.popped = @ + 1],
                              senderState.type, pkt1)
       ELSE s1

\* the switch with a WAKEUP_CORE that forgets to retire
dispatchCommand_wakeupNoFinish(s, cmd) ==
    CASE cmd.opcode \in {SEND, REPLY} -> startTransmission(s, cmd)
      [] cmd.opcode = READ -> startRead(s, cmd)
      [] cmd.opcode = WRITE -> startWrite(s, cmd)
      [] cmd.opcode = INC_READ_PTR ->
            LET s1 == incrementReadPtr(s, cmd.epId)
            IN IF Running(s1) THEN finishCommand(s1) ELSE s1
      [] cmd.opcode = WAKEUP_CORE -> wakeupCore(s)
      [] OTHER -> Halt(s, "panic Invalid opcode")

\* the switch whose default case returns instead of panicking
dispatchCommand_defaultReturns(s, cmd) ==
    CASE cmd.opcode \in {SEND, REPLY} -> startTransmission(s, cmd)
      [] cmd.opcode = READ -> startRead(s, cmd)
      [] cmd.opcode = WRITE -> startWrite(s, cmd)
      [] cmd.opcode = INC_READ_PTR ->
            LET s1 == incrementReadPtr(s, cmd.epId)
            IN IF Running(s1) THEN finishCommand(s1) ELSE s1
      [] cmd.opcode = WAKEUP_CORE -> finishCommand(wakeupCore(s))
      [] OTHER -> s

\* Dtu::executeCommand, the switch on the opcode
dispatchCommand(s, cmd) ==
    CASE cmd.opcode \in {SEND, REPLY} -> startTransmission(s, cmd)
      [] cmd.opcode = READ -> startRead(s, cmd)
      [] cmd.opcode = WRITE -> startWrite(s, cmd)
      [] cmd.opcode = INC_READ_PTR ->
            LET s1 == incrementReadPtr(s, cmd.epId)
            IN IF Running(s1) THEN finishCommand(s1) ELSE s1
      [] cmd.opcode = WAKEUP_CORE -> finishCommand(wakeupCore(s))
      [] OTHER -> Halt(s, "panic Invalid opcode")

\* what executeCommand found when it was entered
AtEntry(s, cmd) ==
    [s EXCEPT !.out.executed = TRUE, !.out.cmdAtEntry = cmd.opcode,
              !.out.epAtEntry = cmd.epId, !.out.busyAtEntry = s.cmdInProgress,
              !.out.regAtEntry = s.regFile, !.out.tcAtEntry = s.tcStatus]

\* executeCommand without assert(!cmdInProgress)
executeCommand_noBusyAssert(s) ==
    LET cmd == getCommand(s)
        s0 == AtEntry(s, cmd)
    IN IF ~getCommandAssert THEN Halt(s, "assert cmd widths")
       ELSE IF cmd.opcode = IDLE THEN s0
       ELSE IF ~(cmd.epId < numEndpoints) THEN Halt(s0, "assert epId < numEndpoints")
       ELSE dispatchCommand([s0 EXCEPT !.cmdInProgress = TRUE], cmd)

\* executeCommand with the assertions ahead of the IDLE test
executeCommand_idleAfterAsserts(s) ==
    LET cmd == getCommand(s)
        s0 == AtEntry(s, cmd)
    IN IF ~getCommandAssert THEN Halt(s, "assert cmd widths")
       ELSE IF s0.cmdInProgress THEN Halt(s0, "assert !cmdInProgress")
       ELSE IF ~(cmd.epId < numEndpoints) THEN Halt(s0, "assert epId < numEndpoints")
       ELSE IF cmd.opcode = IDLE THEN s0
       ELSE dispatchCommand([s0 EXCEPT !.cmdInProgress = TRUE], cmd)

\* Dtu::executeCommand
executeCommand(s) ==
    LET cmd == getCommand(s)
        s0 == AtEntry(s, cmd)
    IN IF ~getCommandAssert THEN Halt(s, "assert cmd widths")
       ELSE IF cmd.opcode = IDLE THEN s0
       ELSE IF s0.cmdInProgress THEN Halt(s0, "assert !cmdInProgress")
       ELSE IF ~(cmd.epId < numEndpoints) THEN Halt(s0, "assert epId < numEndpoints")
       ELSE dispatchCommand([s0 EXCEPT !.cmdInProgress = TRUE], cmd)

registerAccessLatency == 1

\* EventManager::schedule(executeCommandEvent, when)
scheduleExecuteCommand(s, when) ==
    IF s.executeCommandEvent.scheduled THEN Halt(s, "assert !scheduled")
    ELSE [s EXCEPT !.executeCommandEvent = [scheduled |-> TRUE, when |-> when],
                   !.out.execWhen = when]

\* Dtu::forwardRequestToRegFile
forwardRequestToRegFile(s, pkt, isCpuRequest) ==
    LET oldAddr == pkt.addr
        stripped == [pkt EXCEPT !.addr = (oldAddr - regFileBaseAddr) % AddrMod]
        r == RegFileHandleRequest(s, stripped)
        s1 == [r.state EXCEPT !.out.pktAddr = oldAddr,
                              !.out.commandWritten = r.commandWritten,
                              !.out.msgCntAtAccess = RegGetMsgCnt(r.state)]
        s2 == updateSuspendablePin(s1)
        when == pkt.delay + registerAccessLatency
        s3 == IF isCpuRequest
              THEN Call([s2 EXCEPT !.out.respWhen = when], "schedCpuResponse")
              ELSE Call(Call([s2 EXCEPT !.out.respWhen = when],
                             "schedNocRequestFinished"), "schedNocResponse")
    IN IF ~atomicMode
       THEN IF r.commandWritten THEN scheduleExecuteCommand(s3, when) ELSE s3
       ELSE IF r.commandWritten THEN executeCommand(s2) ELSE s2

\* Dtu::handleCpuRequest
handleCpuRequest(s, pkt) == forwardRequestToRegFile(s, pkt, TRUE)

\* the permission check with the read test left out
insufficientPermissions_writeOnly(pkt, flags) ==
    isWrite(pkt) /\ ~HasFlag(flags, FLAG_WRITE)

\* Dtu::handleCacheMemRequest, the permission check
insufficientPermissions(pkt, flags) ==
    \/ isWrite(pkt) /\ ~HasFlag(flags, FLAG_WRITE)
    \/ isRead(pkt) /\ ~HasFlag(flags, FLAG_READ)

\* the bounds check without the test for wrap-around
outOfBounds_noWrap(pkt, remoteSize) ==
    (pkt.addr + pkt.size) % AddrMod > remoteSize

\* Dtu::handleCacheMemRequest, the bounds check on unsigned words
outOfBounds(pkt, remoteSize) ==
    \/ (pkt.addr + pkt.size) % AddrMod <= pkt.addr
    \/ (pkt.addr + pkt.size) % AddrMod > remoteSize

\* handleCacheMemRequest without the test for InvalidateReq
handleCacheMemRequest_forwardsInvalidate(s, pkt, functional) ==
    LET targetCoreId == RegGetEp(s, memEp, "TGT_COREID")
        targetAddr == RegGetEp(s, memEp, "REQ_REM_ADDR")
        remoteSize == RegGetEp(s, memEp, "REQ_REM_SIZE")
        flags == RegGetEp(s, memEp, "REQ_FLAGS")
        pkt1 == [pkt EXCEPT !.addr = NocAddr(targetCoreId, 0,
                                             (targetAddr + pkt.addr) % AddrMod)]
        type == IF functional THEN "CACHE_MEM_REQ_FUNC" ELSE "CACHE_MEM_REQ"
        s0 == [s EXCEPT !.out.pktAddr = pkt.addr, !.out.reqAddr = pkt.addr,
                        !.out.reqSize = pkt.size, !.out.reqCmd = pkt.cmd]
    IN IF pkt.cmd = "CleanEvict" THEN [s0 EXCEPT !.out.ret = "true"]
       ELSE IF insufficientPermissions(pkt, flags) THEN [s0 EXCEPT !.out.ret = "false"]
       ELSE IF outOfBounds(pkt, remoteSize) THEN [s0 EXCEPT !.out.ret = "false"]
       ELSE LET s1 == sendNocRequest([s0 EXCEPT !.out.pktAddr = pkt1.addr],
                                     type, pkt1, functional)
            IN IF Running(s1) THEN [s1 EXCEPT !.out.ret = "true"] ELSE s1

\* Dtu::handleCacheMemRequest; out.ret is the result
handleCacheMemRequest(s, pkt, functional) ==
    LET targetCoreId == RegGetEp(s, memEp, "TGT_COREID")
        targetAddr == RegGetEp(s, memEp, "REQ_REM_ADDR")
        remoteSize == RegGetEp(s, memEp, "REQ_REM_SIZE")
        flags == RegGetEp(s, memEp, "REQ_FLAGS")
        pkt1 == [pkt EXCEPT !.addr = NocAddr(targetCoreId, 0,
                                             (targetAddr + pkt.addr) % AddrMod)]
        type == IF functional THEN "CACHE_MEM_REQ_FUNC" ELSE "CACHE_MEM_REQ"
        s0 == [s EXCEPT !.out.pktAddr = pkt.addr, !.out.reqAddr = pkt.addr,
                        !.out.reqSize = pkt.size, !.out.reqCmd = pkt.cmd]
    IN IF pkt.cmd = "CleanEvict" THEN [s0 EXCEPT !.out.ret = "true"]
       ELSE IF pkt.cmd = "InvalidateReq" THEN [s0 EXCEPT !.out.ret = "false"]
       ELSE IF insufficientPermissions(pkt, flags) THEN [s0 EXCEPT !.out.ret = "false"]
       ELSE IF outOfBounds(pkt, remoteSize) THEN [s0 EXCEPT !.out.ret = "false"]
       ELSE LET s1 == sendNocRequest([s0 EXCEPT !.out.pktAddr = pkt1.addr],
                                     type, pkt1, functional)
            IN IF Running(s1) THEN [s1 EXCEPT !.out.ret = "true"] ELSE s1

\* handleNocRequest that serves CACHE_MEM_REQ on the functional path
handleNocRequest_cacheFunctional(s, pkt) ==
    LET packetType == Head(pkt.senderState).packetType
        s0 == [s EXCEPT !.out.inType = packetType, !.out.inError = pkt.isError]
    IN IF pkt.isError THEN Halt(s0, "assert !isError")
       ELSE CASE packetType = "MESSAGE" -> MsgUnit_recvFromNoc(s0, pkt)
              [] packetType \in {"READ_REQ", "WRITE_REQ"} ->
                    MemUnit_recvFromNoc(s0, pkt)
              [] packetType \in {"CACHE_MEM_REQ", "CACHE_MEM_REQ_FUNC"} ->
                    recvFunctionalFromNoc(s0, pkt)
              [] OTHER -> Halt(s0, "panic Unexpected NocPacketType")

\* Dtu::handleNocRequest; out.inType and out.inError are the tag and the
\* error flag of the packet it was given
handleNocRequest(s, pkt) ==
    LET packetType == Head(pkt.senderState).packetType
        s0 == [s EXCEPT !.out.inType = packetType, !.out.inError = pkt.isError]
    IN IF pkt.isError THEN Halt(s0, "assert !isError")
       ELSE CASE packetType = "MESSAGE" -> MsgUnit_recvFromNoc(s0, pkt)
              [] packetType \in {"READ_REQ", "WRITE_REQ", "CACHE_MEM_REQ"} ->
                    MemUnit_recvFromNoc(s0, pkt)
              [] packetType = "CACHE_MEM_REQ_FUNC" -> recvFunctionalFromNoc(s0, pkt)
              [] OTHER -> Halt(s0, "panic Unexpected NocPacketType")

(* ------------------------------ inputs --------------------------------- *)
CmdWord(opcode, epId) == epId * Pow2(numCmdOpcodeBits) + opcode

\* values software writes to the command register: every opcode for an
\* endpoint that exists, and some for an endpoint that does not
CmdValues ==
    {CmdWord(o, 0) : o \in 0..7} \cup {CmdWord(o, 3) : o \in {IDLE, SEND, INC_READ_PTR}}

\* the configured memory endpoint: p->memory_pe, p->memory_offset, p->memory_size
memory_pe == 1
MemoryOffsets == {0, 256}
memory_size == 4096

\* register indices behind regFileBaseAddr
MsgCntIdx == 0
CommandIdx == 1
EpIdx(epId, f) == 2 + 4 * epId + f

RegWrite(idx, v, d) ==
    [addr |-> regFileBaseAddr + idx, isWrite |-> TRUE, value |-> v, delay |-> d]
RegRead(idx) ==
    [addr |-> regFileBaseAddr + idx, isWrite |-> FALSE, value |-> 0, delay |-> 0]

\* command-register writes of the CPU, and message-count writes and reads
CmdRegRequests ==
    {RegWrite(CommandIdx, v, 0) : v \in CmdValues}
    \cup {RegWrite(CommandIdx, CmdWord(SEND, 0), 1)}
    \cup {RegWrite(MsgCntIdx, v, 0) : v \in 0..1}
    \cup {RegRead(idx) : idx \in {MsgCntIdx, CommandIdx}}

\* the CPU configures the memory endpoint and the last endpoint
EpRegRequests ==
    {RegWrite(EpIdx(memEp, 1), v, 0) : v \in MemoryOffsets}
    \cup {RegWrite(EpIdx(memEp, 2), v, 0) : v \in {1024, memory_size}}
    \cup {RegWrite(EpIdx(memEp, 3), v, 0) : v \in {FLAG_READ, FLAG_WRITE}}
    \cup {RegWrite(EpIdx(numEndpoints - 1, 1), v, 0) : v \in MemoryOffsets}

\* register accesses of a peer over the NoC
NocRegRequests ==
    {RegWrite(CommandIdx, v, 0) : v \in {CmdWord(IDLE, 0), CmdWord(SEND, 0),
                                         CmdWord(INC_READ_PTR, 0)}}
    \cup {RegWrite(MsgCntIdx, 1, 0), RegRead(MsgCntIdx)}

\* cache-memory requests of the CPU: reads and writes inside the region, across
\* its end and across the end of the address space, and the coherence packets
CacheAddrs == {1280, 4088, AddrMod - 8}
CacheSizes == {16}
CachePkt(c, a, sz) ==
    [cmd |-> c, addr |-> a, size |-> sz, origAddr |-> a, masterId |-> "cpu",
     isError |-> FALSE, senderState |-> <<>>]
CachePkts ==
    {CachePkt(c, a, sz) : c \in {"ReadReq", "WriteReq"}, a \in CacheAddrs, sz \in CacheSizes}
    \cup {CachePkt(c, 1280, 16) : c \in {"CleanEvict", "InvalidateReq"}}

\* the requests the CPU makes functionally
FunctionalCachePkts ==
    {CachePkt(c, a, 16) : c \in {"ReadReq", "CleanEvict", "InvalidateReq"},
                          a \in {1280, AddrMod - 8}}

\* inbound NoC packets, by the type tag of their sender state
InboundPkts ==
    {[cmd |-> c, addr |-> 0, size |-> 1, origAddr |-> 0, masterId |-> "peer",
      isError |-> e, senderState |-> <<[packetType |-> ty]>>] :
        c \in {"ReadReq", "WriteReq"}, e \in BOOLEAN,
        ty \in {"MESSAGE", "READ_REQ", "WRITE_REQ", "CACHE_MEM_REQ",
                "CACHE_MEM_REQ_FUNC", "INVALID"}}

(* ------------------------------ actions -------------------------------- *)
\* Dtu::Dtu, for the configurations with a memory offset in offsets,
\* contexts thread contexts and an epId field of a width in epidBits
Construct(offsets, contexts, epidBits) ==
    /\ numCmdEpidBits \in epidBits
    /\ atomicMode \in BOOLEAN
    /\ numEndpoints \in 1..MaxEndpoints
    /\ memEp \in 0..(numEndpoints - 1)
    /\ threadContexts \in contexts
    /\ \E memory_offset \in offsets :
         regFile = [cmd |-> 0, msgCnt |-> 0,
                    ep |-> [e \in 0..(numEndpoints - 1) |->
                              IF e = memEp
                              THEN [TGT_COREID |-> memory_pe,
                                    REQ_REM_ADDR |-> memory_offset,
                                    REQ_REM_SIZE |-> memory_size,
                                    REQ_FLAGS |-> FLAG_READ + FLAG_WRITE]
                              ELSE [TGT_COREID |-> 0, REQ_REM_ADDR |-> 0,
                                    REQ_REM_SIZE |-> 0, REQ_FLAGS |-> 0]]]
    /\ cmdInProgress = FALSE
    /\ executeCommandEvent = [scheduled |-> FALSE, when |-> 0]
    /\ xferUnit = XferIdle
    /\ memReqs = <<>>
    /\ nocReqs = <<>>
    /\ senderStates = 0
    /\ tcStatus = "Active"
    /\ denySuspend = FALSE
    /\ halted = "none"
    /\ out = NoOut("init")

\* no DtuTest is attached
NoTester ==
    /\ counter = 0
    /\ retryPkt = <<>>
    /\ tickEvent = FALSE
    /\ sentPkts = <<>>

Init == Construct({256}, 0..1, {2}) /\ NoTester

\* the CPU accesses a register
CpuRequestOf(requests) ==
    /\ halted = "none"
    /\ \E pkt \in requests :
         Commit(handleCpuRequest(Begin(Cur, "handleCpuRequest"), pkt))

CpuRequest == CpuRequestOf(CmdRegRequests)

\* a peer accesses a register over the NoC
NocRegRequest ==
    /\ halted = "none"
    /\ \E pkt \in NocRegRequests :
         Commit(forwardRequestToRegFile(Begin(Cur, "forwardRequestToRegFile"),
                                        pkt, FALSE))

\* executeCommandEvent fires (timed mode)
ExecuteCommandEvent ==
    /\ halted = "none"
    /\ executeCommandEvent.scheduled
    /\ Commit(executeCommand(
         [Begin(Cur, "executeCommand") EXCEPT
             !.executeCommandEvent = [scheduled |-> FALSE, when |-> 0]]))

\* a packet arrives from the NoC
NocRequest ==
    /\ halted = "none"
    /\ \E pkt \in InboundPkts :
         /\ Head(pkt.senderState).packetType = "MESSAGE" => regFile.msgCnt < MaxMsgCnt
         /\ Commit(handleNocRequest(Begin(Cur, "handleNocRequest"), pkt))

\* the CPU's cache misses and is served through memEp
CacheMemRequest ==
    /\ halted = "none"
    /\ Len(nocReqs) < MaxNocReqs
    /\ \E functional \in BOOLEAN :
         \E pkt \in IF functional THEN FunctionalCachePkts ELSE CachePkts :
            Commit(handleCacheMemRequest(Begin(Cur, "handleCacheMemRequest"),
                                         pkt, functional))

\* the response to a local-memory request arrives (timed mode)
MemResponse ==
    /\ halted = "none"
    /\ \E i \in 1..Len(memReqs), err \in BOOLEAN :
         LET s == [Begin(Cur, "completeMemRequest") EXCEPT
                      !.memReqs = SubSeq(@, 1, i - 1) \o SubSeq(@, i + 1, Len(@))]
         IN Commit(completeMemRequest(s, [memReqs[i] EXCEPT !.isError = err]))

\* the response to a NoC request arrives (timed mode)
NocResponse ==
    /\ halted = "none"
    /\ \E i \in 1..Len(nocReqs) :
         LET s == [Begin(Cur, "completeNocRequest") EXCEPT
                      !.nocReqs = SubSeq(@, 1, i - 1) \o SubSeq(@, i + 1, Len(@))]
         IN Commit(completeNocRequest(s, nocReqs[i]))

\* the core suspends itself when the DTU does not deny it
CpuSuspend ==
    /\ halted = "none"
    /\ threadContexts > 0
    /\ tcStatus = "Active"
    /\ ~denySuspend
    /\ tcStatus' = "Suspended"
    /\ out' = NoOut("suspend")
    /\ UNCHANGED <<atomicMode, numEndpoints, memEp, numCmdEpidBits, regFile, cmdInProgress,
                   executeCommandEvent, xferUnit, memReqs, nocReqs, senderStates,
                   threadContexts, denySuspend, halted, testerVars>>

\* the command pipeline: register accesses, execution, inbound packets, completions
Next ==
    \/ CpuRequest
    \/ NocRegRequest
    \/ ExecuteCommandEvent
    \/ NocRequest
    \/ MemResponse
    \/ NocResponse
    \/ CpuSuspend

Spec == Init /\ [][Next]_vars

\* the cache-memory forwarding path under reconfiguration of the endpoints
CacheInit == Construct(MemoryOffsets, {1}, {2}) /\ NoTester

CacheCpuRequest ==
    CpuRequestOf(EpRegRequests \cup {RegWrite(CommandIdx, CmdWord(READ, 0), 0)})

CacheNext ==
    \/ CacheCpuRequest
    \/ ExecuteCommandEvent
    \/ CacheMemRequest
    \/ NocResponse
    \/ MemResponse

CacheSpec == CacheInit /\ [][CacheNext]_vars

\* command decoding: every word of the command register under every width of
\* the epId field, the widest one wider than the register allows
DecodeRequests == {RegWrite(CommandIdx, v, 0) : v \in 0..(RegMod - 1)}

\* atomic mode: the write of the command register runs executeCommand
DecodeInit ==
    /\ Construct({256}, {0}, 0..(RegBits - numCmdOpcodeBits + 1))
    /\ NoTester
    /\ atomicMode

DecodeCpuRequest == CpuRequestOf(DecodeRequests)

DecodeNext == DecodeCpuRequest

DecodeSpec == DecodeInit /\ [][DecodeNext]_vars

\* timed mode: register accesses of the CPU and of peers, the deferred
\* execution and the responses; the event queue runs every scheduled event
TimedInit ==
    /\ Construct({256}, {0}, {2})
    /\ NoTester
    /\ ~atomicMode

TimedCpuRequest == CpuRequestOf(CmdRegRequests)

TimedNext ==
    \/ TimedCpuRequest
    \/ NocRegRequest
    \/ ExecuteCommandEvent
    \/ MemResponse
    \/ NocResponse

TimedSpec == TimedInit /\ [][TimedNext]_vars /\ WF_vars(ExecuteCommandEvent)

\* every path that issues a request: the commands SEND, READ and WRITE and the
\* cache-memory requests, in both modes, with the responses of timed mode
RequestInit == Construct({256}, {0}, {2}) /\ NoTester

RequestCpuRequest ==
    CpuRequestOf({RegWrite(CommandIdx, CmdWord(o, 0), 0) : o \in {SEND, READ, WRITE}})

RequestNext ==
    \/ RequestCpuRequest
    \/ ExecuteCommandEvent
    \/ CacheMemRequest
    \/ MemResponse
    \/ NocResponse

RequestSpec == RequestInit /\ [][RequestNext]_vars

\* finishCommandEvent fires, or a sub-unit calls finishCommand, whether or not
\* a command is in progress; the requests left behind are capped
FinishCommandEvent ==
    /\ halted = "none"
    /\ Len(memReqs) + Len(nocReqs) <= MaxNocReqs
    /\ Commit(finishCommand(Begin(Cur, "finishCommand")))

\* the life of a command: written, executed, retired by the engine or by a
\* sub-unit, in both modes
RetireInit == Construct({256}, {0}, {2}) /\ NoTester

RetireCpuRequest == CpuRequestOf({RegWrite(CommandIdx, v, 0) : v \in CmdValues})

RetireNext ==
    \/ RetireCpuRequest
    \/ ExecuteCommandEvent
    \/ FinishCommandEvent
    \/ MemResponse
    \/ NocResponse

RetireSpec == RetireInit /\ [][RetireNext]_vars

(* ------------------------------ DtuTest -------------------------------- *)
\* the number of requests DtuTest::tick generates
NumTestPkts == 16

\* the DTU's window in the address space of the tester
DtuWindow == 268435456

\* DtuTest::tick, the packet for this value of counter: <<>> for nullptr
TestPkt(c) ==
    IF c < 4 THEN <<[cmd |-> "WriteReq", addr |-> c]>>
    ELSE IF c < 8 THEN <<[cmd |-> "ReadReq", addr |-> c - 4 + DtuWindow]>>
    ELSE IF c < 12 THEN <<[cmd |-> "WriteReq", addr |-> c + DtuWindow]>>
    ELSE IF c < NumTestPkts THEN <<[cmd |-> "ReadReq", addr |-> c - 4]>>
    ELSE <<>>

\* the tester as one record, threaded through its handlers
TesterCur ==
    [counter |-> counter, retryPkt |-> retryPkt, tickEvent |-> tickEvent,
     sentPkts |-> sentPkts, halted |-> halted, out |-> out]

TesterCommit(t) ==
    /\ counter' = t.counter
    /\ retryPkt' = t.retryPkt
    /\ tickEvent' = t.tickEvent
    /\ sentPkts' = t.sentPkts
    /\ halted' = t.halted
    /\ out' = t.out
    /\ UNCHANGED <<atomicMode, numEndpoints, memEp, numCmdEpidBits, regFile,
                   cmdInProgress, executeCommandEvent, xferUnit, memReqs, nocReqs,
                   senderStates, threadContexts, tcStatus, denySuspend>>

\* port.sendTimingReq(pkt) / port.sendAtomic(pkt): the port is offered the
\* packet and takes it when accept holds
portSend(t, pkt, accept) ==
    [t EXCEPT !.out.offered = Append(@, pkt),
              !.sentPkts = IF accept THEN Append(@, pkt) ELSE @]

\* schedule(tickEvent, ...)
scheduleTick(t) ==
    IF t.tickEvent THEN Halt(t, "assert !scheduled")
    ELSE [t EXCEPT !.tickEvent = TRUE]

\* sendPkt that does not hold the packet the port refused
sendPkt_dropsRefused(t, pkt, accept) ==
    IF atomicMode THEN [state |-> portSend(t, pkt, TRUE), ret |-> TRUE]
    ELSE [state |-> portSend(t, pkt, accept), ret |-> accept]

\* DtuTest::sendPkt; the result is the state and the value returned
sendPkt(t, pkt, accept) ==
    IF atomicMode THEN [state |-> portSend(t, pkt, TRUE), ret |-> TRUE]
    ELSE LET retry == ~accept
         IN IF retry
            THEN [state |-> [portSend(t, pkt, FALSE) EXCEPT !.retryPkt = <<pkt>>],
                  ret |-> FALSE]
            ELSE [state |-> portSend(t, pkt, TRUE), ret |-> TRUE]

\* recvRetry that forgets the packet whether or not the port took it
recvRetry_clearsAlways(t, accept) ==
    IF t.retryPkt = <<>> THEN Halt(t, "assert retryPkt")
    ELSE LET t1 == [portSend(t, t.retryPkt[1], accept) EXCEPT !.retryPkt = <<>>]
         IN IF accept THEN scheduleTick(t1) ELSE t1

\* DtuTest::recvRetry
recvRetry(t, accept) ==
    IF t.retryPkt = <<>> THEN Halt(t, "assert retryPkt")
    ELSE IF accept
    THEN scheduleTick([portSend(t, t.retryPkt[1], TRUE) EXCEPT !.retryPkt = <<>>])
    ELSE portSend(t, t.retryPkt[1], FALSE)

\* tick that counts a request only once the port has taken it
tick_countsOnlySent(t, accept) ==
    LET pkt == TestPkt(t.counter)
        r == IF pkt # <<>> THEN sendPkt(t, pkt[1], accept)
             ELSE [state |-> t, ret |-> FALSE]
        t1 == IF pkt # <<>> /\ r.ret THEN scheduleTick(r.state) ELSE r.state
    IN IF Running(t1) /\ (r.ret \/ pkt = <<>>)
       THEN [t1 EXCEPT !.counter = @ + 1] ELSE t1

\* DtuTest::tick
tick(t, accept) ==
    LET pkt == TestPkt(t.counter)
        r == IF pkt # <<>> THEN sendPkt(t, pkt[1], accept)
             ELSE [state |-> t, ret |-> FALSE]
        t1 == IF pkt # <<>> /\ r.ret THEN scheduleTick(r.state) ELSE r.state
    IN IF Running(t1) THEN [t1 EXCEPT !.counter = @ + 1] ELSE t1

\* DtuTest::DtuTest next to an idle DTU
DtuTestInit ==
    /\ Construct({256}, {0}, {2})
    /\ counter = 0
    /\ retryPkt = <<>>
    /\ tickEvent = TRUE
    /\ sentPkts = <<>>

\* tickEvent fires; the port takes the packet or refuses it
Tick ==
    /\ halted = "none"
    /\ tickEvent
    /\ \E accept \in BOOLEAN :
         TesterCommit(tick([Begin(TesterCur, "tick") EXCEPT !.tickEvent = FALSE],
                           accept))

\* the port signals a retry (CpuPort::recvReqRetry); the port takes the packet
\* offered again or refuses it again
RecvReqRetry ==
    /\ halted = "none"
    /\ \E accept \in BOOLEAN :
         TesterCommit(recvRetry(Begin(TesterCur, "recvRetry"), accept))

TesterNext ==
    \/ Tick
    \/ RecvReqRetry

TesterSpec == DtuTestInit /\ [][TesterNext]_vars

\* the port signals a retry for the packet it refused and takes it this time
RetryAccepted ==
    /\ halted = "none"
    /\ retryPkt # <<>>
    /\ TesterCommit(recvRetry(Begin(TesterCur, "recvRetry"), TRUE))

\* the port signals a retry for the packet it refused and refuses it again
RetryRefused ==
    /\ halted = "none"
    /\ retryPkt # <<>>
    /\ TesterCommit(recvRetry(Begin(TesterCur, "recvRetry"), FALSE))

PortNext ==
    \/ Tick
    \/ RetryAccepted
    \/ RetryRefused

\* the tester at a port that signals a retry only for a packet it refused: a
\* scheduled tick fires, and a held packet is in the end offered again and taken
PortSpec ==
    /\ DtuTestInit
    /\ [][PortNext]_vars
    /\ WF_vars(Tick)
    /\ WF_vars(RetryAccepted)

\* the same port without the promise of a retry
StalledPortSpec ==
    /\ DtuTestInit
    /\ [][PortNext]_vars
    /\ WF_vars(Tick)

(* ------------------------------ properties ----------------------------- *)
SubUnitCalls ==
    {"msgUnit.startTransmission", "msgUnit.recvFromMem", "msgUnit.incrementReadPtr",
     "msgUnit.recvFromNoc", "memUnit.startRead", "memUnit.startWrite",
     "memUnit.readComplete", "memUnit.writeComplete", "memUnit.recvFromNoc",
     "memUnit.recvFunctionalFromNoc", "xferUnit.startTransfer",
     "xferUnit.recvMemResponse"}

Calls(name) == {i \in 1..Len(out.calls) : out.calls[i] = name}
NoSubUnitCalled == \A i \in 1..Len(out.calls) : out.calls[i] \notin SubUnitCalls

\* executeCommand ran in the last step on a command other than IDLE
ExecutedCommand == out.executed /\ out.cmdAtEntry # IDLE

\* C1: a non-IDLE command that reaches executeCommand while another command
\* is in progress is never started: the step ends in the failed assertion, no
\* sub-unit is invoked and no request is issued for it.
C1_OneCommandInFlight ==
    (ExecutedCommand /\ out.busyAtEntry) =>
        /\ halted = "assert !cmdInProgress"
        /\ NoSubUnitCalled
        /\ out.memSent = 0 /\ out.nocSent = 0
        /\ regFile = out.regAtEntry

C1_Witness == ExecutedCommand /\ out.busyAtEntry /\ out.cmdAtEntry = READ

\* C2: no command is in progress while the command register reads zero.
C2_ZeroOnlyAfterRetire == cmdInProgress => regFile.cmd # 0

\* the request the last handleCacheMemRequest was given
CacheRequestHandled == out.op = "handleCacheMemRequest"
DataRequestHandled == CacheRequestHandled /\ out.reqCmd \in {"ReadReq", "WriteReq"}
Denied == out.ret = "false" /\ out.nocSent = 0 /\ out.pushed = 0
remoteSizeOfMemEp == regFile.ep[memEp].REQ_REM_SIZE
flagsOfMemEp == regFile.ep[memEp].REQ_FLAGS

\* C3: a read or write whose addr + size wraps around the word or exceeds
\* REQ_REM_SIZE of memEp is denied and issues no NoC request; with remoteSize
\* 0x1000 the request 0xFF8+0x10 is denied and, the flags permitting, the
\* request 0x500+0x10 is forwarded.
C3_OutOfBoundsDenied ==
    /\ (/\ DataRequestHandled
        /\ \/ out.reqAddr + out.reqSize >= AddrMod
           \/ out.reqAddr + out.reqSize > remoteSizeOfMemEp) => Denied
    /\ (/\ DataRequestHandled
        /\ remoteSizeOfMemEp = 4096 /\ out.reqAddr = 1280 /\ out.reqSize = 16
        /\ flagsOfMemEp = FLAG_READ + FLAG_WRITE) =>
            out.ret = "true" /\ out.nocSent = 1

C3_Witness ==
    /\ DataRequestHandled
    /\ out.reqAddr + out.reqSize >= AddrMod
    /\ (out.reqAddr + out.reqSize) % AddrMod <= remoteSizeOfMemEp
    /\ flagsOfMemEp = FLAG_READ + FLAG_WRITE

\* C4: a read without the READ flag or a write without the WRITE flag is
\* denied, issues no NoC request and leaves the packet address as it was; a
\* read or write is forwarded only if the flag of its direction is set.
C4_PermissionDenied ==
    /\ (/\ CacheRequestHandled
        /\ \/ out.reqCmd = "ReadReq" /\ ~HasFlag(flagsOfMemEp, FLAG_READ)
           \/ out.reqCmd = "WriteReq" /\ ~HasFlag(flagsOfMemEp, FLAG_WRITE)) =>
            Denied /\ out.pktAddr = out.reqAddr
    /\ (DataRequestHandled /\ out.nocSent > 0) =>
            HasFlag(flagsOfMemEp, IF out.reqCmd = "ReadReq" THEN FLAG_READ ELSE FLAG_WRITE)

C4_Witness ==
    /\ CacheRequestHandled /\ out.reqCmd = "ReadReq"
    /\ flagsOfMemEp = FLAG_WRITE
    /\ out.reqAddr + out.reqSize <= remoteSizeOfMemEp

\* C5: the address handed to the CPU-side response path for a forwarded
\* cache-memory request is the address of the request.
C5_AddressRoundTrip == out.cpuResp # -1 => out.cpuResp = out.reqAddr

\* C6: a CleanEvict is reported handled and an InvalidateReq not handled,
\* whatever the configuration of memEp; neither issues a NoC request or a
\* response, and the step changes nothing of the engine's state.
C6_CoherenceDropped ==
    [][(out'.op = "handleCacheMemRequest"
         /\ out'.reqCmd \in {"CleanEvict", "InvalidateReq"}) =>
        /\ out'.ret = (IF out'.reqCmd = "CleanEvict" THEN "true" ELSE "false")
        /\ out'.nocSent = 0 /\ out'.pushed = 0 /\ out'.calls = <<>>
        /\ out'.pktAddr = out'.reqAddr
        /\ UNCHANGED <<regFile, cmdInProgress, executeCommandEvent, xferUnit,
                       memReqs, nocReqs, tcStatus, denySuspend, halted>>]_vars

C6_Witness ==
    /\ CacheRequestHandled /\ out.reqCmd = "InvalidateReq"
    /\ flagsOfMemEp = FLAG_READ /\ remoteSizeOfMemEp = 1024 /\ cmdInProgress

\* the last step was a register access through forwardRequestToRegFile
RegisterAccessed == out.op \in {"handleCpuRequest", "forwardRequestToRegFile"}

\* C7: after a register access, the deny-suspend signal of the attached CPU
\* is (MSG_CNT # 0) for the value MSG_CNT had when the access was made.
C7_PinFollowsAccess ==
    (RegisterAccessed /\ threadContexts > 0) =>
        denySuspend = (out.msgCntAtAccess > 0)

C7_Witness ==
    /\ RegisterAccessed /\ threadContexts > 0
    /\ out.msgCntAtAccess > 0 /\ regFile.msgCnt = 0

C9_IdleIsNoOp ==
    (out.executed /\ out.cmdAtEntry = IDLE) =>
        /\ halted = "none"
        /\ cmdInProgress = out.busyAtEntry
        /\ regFile = out.regAtEntry
        /\ NoSubUnitCalled /\ Calls("finishCommand") = {}
        /\ out.memSent = 0 /\ out.nocSent = 0

C9_Witness ==
    /\ out.executed /\ out.cmdAtEntry = IDLE
    /\ out.busyAtEntry /\ ~(out.epAtEntry < numEndpoints)

\* executeCommand started the command: none in progress, epId in range
StartedCommand ==
    ExecutedCommand /\ ~out.busyAtEntry /\ out.epAtEntry < numEndpoints

\* C10: INC_READ_PTR and WAKEUP_CORE are retired when executeCommand
\* returns: command register zero, nothing in progress, no request issued or
\* outstanding.  SEND and REPLY go to the Message Unit only, READ and WRITE to
\* the Memory Unit only, and executeCommand does not retire them: in timed
\* mode they are in progress when it returns, and in atomic mode they are
\* retired by a completion of a sub-unit.
C10_SynchronousRetire ==
    /\ (StartedCommand /\ out.cmdAtEntry \in {INC_READ_PTR, WAKEUP_CORE}) =>
        /\ halted = "none"
        /\ regFile.cmd = 0 /\ ~cmdInProgress
        /\ out.memSent = 0 /\ out.nocSent = 0
        /\ memReqs = <<>> /\ nocReqs = <<>>
    /\ (StartedCommand /\ out.cmdAtEntry \in {SEND, REPLY}) =>
        /\ out.calls[1] = "msgUnit.startTransmission"
        /\ Cardinality(Calls("msgUnit.startTransmission")) = 1
        /\ Calls("memUnit.startRead") = {} /\ Calls("memUnit.startWrite") = {}
    /\ (StartedCommand /\ out.cmdAtEntry \in {READ, WRITE}) =>
        /\ out.calls[1] = (IF out.cmdAtEntry = READ THEN "memUnit.startRead"
                           ELSE "memUnit.startWrite")
        /\ Cardinality(Calls("memUnit.startRead") \cup Calls("memUnit.startWrite")) = 1
        /\ Calls("msgUnit.startTransmission") = {}
    /\ (StartedCommand /\ out.cmdAtEntry \in {SEND, REPLY, READ, WRITE}) =>
        /\ ~atomicMode => cmdInProgress /\ regFile.cmd # 0
        /\ \A i \in Calls("finishCommand") :
              i > 1 /\ out.calls[i - 1] \in {"memUnit.writeComplete",
                                            "xferUnit.recvMemResponse"}

C10_Witness ==
    /\ StartedCommand /\ out.cmdAtEntry = WAKEUP_CORE
    /\ out.regAtEntry.cmd # 0 /\ regFile.cmd = 0

C10_WitnessDispatch ==
    /\ StartedCommand /\ out.cmdAtEntry = REPLY /\ ~atomicMode /\ cmdInProgress

\* the opcodes of Dtu::Command
KnownOpcodes == {IDLE, SEND, REPLY, READ, WRITE, INC_READ_PTR, WAKEUP_CORE}

\* executeCommand ran in the last step on a command that must not execute
InvalidCommand ==
    /\ out.executed
    /\ \/ out.cmdAtEntry \notin KnownOpcodes
       \/ out.cmdAtEntry # IDLE /\ ~(out.epAtEntry < numEndpoints)

\* C11: executeCommand on an opcode that is none of the seven known ones, or
\* on a non-IDLE opcode with epId >= numEndpoints, ends in a failed assertion
\* or panic: no sub-unit is invoked, no request is issued, the command is not
\* retired, and the engine is not running with cmdInProgress set.  An unknown
\* opcode on an idle engine with a valid endpoint ends in the panic of the
\* switch, an endpoint out of range on an idle engine in the range assertion.
C11_InvalidCommandHalts ==
    /\ InvalidCommand =>
        /\ halted \in {"assert !cmdInProgress", "assert epId < numEndpoints",
                       "panic Invalid opcode"}
        /\ NoSubUnitCalled /\ Calls("finishCommand") = {}
        /\ out.memSent = 0 /\ out.nocSent = 0
        /\ regFile = out.regAtEntry
        /\ ~(halted = "none" /\ cmdInProgress)
    /\ (InvalidCommand /\ ~out.busyAtEntry) =>
        halted = (IF out.epAtEntry < numEndpoints THEN "panic Invalid opcode"
                  ELSE "assert epId < numEndpoints")

C11_Witness ==
    /\ InvalidCommand /\ out.cmdAtEntry \notin KnownOpcodes
    /\ ~out.busyAtEntry /\ out.epAtEntry < numEndpoints

C11_WitnessEndpoint ==
    /\ InvalidCommand /\ out.cmdAtEntry = SEND /\ ~out.busyAtEntry
    /\ halted = "assert epId < numEndpoints"

\* the register word with opcode o, epId e and hi in the bits above them
CommandWord(hi, e, o) ==
    (hi * Pow2(numCmdEpidBits) + e) * Pow2(numCmdOpcodeBits) + o

\* C12: when the two widths fit in the register, getCommand on the word
\* (e << numCmdOpcodeBits) | o gives opcode o and epId e, for every opcode
\* below 2^numCmdOpcodeBits and every epId below 2^numCmdEpidBits, whatever
\* the register holds in the bits above the two fields.
C12_DecodeExact ==
    (out.executed /\ getCommandAssert) =>
        \A o \in 0..(Pow2(numCmdOpcodeBits) - 1) :
          \A e \in 0..(Pow2(numCmdEpidBits) - 1) :
            \A hi \in 0..(Pow2(RegBits - numCmdOpcodeBits - numCmdEpidBits) - 1) :
               out.regAtEntry.cmd = CommandWord(hi, e, o) =>
                  out.cmdAtEntry = o /\ out.epAtEntry = e

C12_Witness ==
    /\ out.executed /\ getCommandAssert
    /\ numCmdEpidBits = 2 /\ out.epAtEntry = 2 /\ out.cmdAtEntry = WAKEUP_CORE
    /\ out.regAtEntry.cmd >= Pow2(numCmdOpcodeBits + numCmdEpidBits)

\* widths that do not fit in the register end in the assertion of getCommand
C12_WitnessWidths == halted = "assert cmd widths"

\* the last step of timed mode was a register access that wrote, or did not
\* write, the command register
TimedCommandWrite == ~atomicMode /\ RegisterAccessed /\ out.commandWritten
TimedOtherAccess == ~atomicMode /\ RegisterAccessed /\ ~out.commandWritten

\* the event has run executeCommand
ExecutionRan == out.op = "executeCommand" /\ out.executed

\* C13 (safety part, for the accesses that return): the execution is scheduled
\* for the tick of the response, transport delay plus register-access latency,
\* and an access that did not write the command register schedules nothing.
C13_SameTickWhenReturned ==
    /\ (TimedCommandWrite /\ halted = "none") =>
        /\ executeCommandEvent.scheduled
        /\ executeCommandEvent.when = out.respWhen
        /\ out.execWhen = out.respWhen
        /\ out.respWhen >= registerAccessLatency
        /\ ~out.executed
    /\ TimedOtherAccess =>
        /\ out.execWhen = -1 /\ ~out.executed /\ halted = "none"

\* C13: in timed mode every access that wrote the command register schedules
\* the execution for the tick of its response, an access that did not write
\* it schedules none, and every scheduled execution eventually runs
\* executeCommand.
C13_TimedExecution ==
    /\ [](TimedCommandWrite =>
            /\ executeCommandEvent.scheduled
            /\ executeCommandEvent.when = out.respWhen)
    /\ [](TimedOtherAccess => out.execWhen = -1)
    /\ (executeCommandEvent.scheduled ~> ExecutionRan)

\* an execution scheduled with a transport delay has run
C13_WitnessRan ==
    ExecutionRan /\ ~atomicMode /\ out.cmdAtEntry = SEND /\ cmdInProgress

\* C14: in atomic mode nothing is deferred.  A write of the command register
\* runs executeCommand inside the same forwardRequestToRegFile call; every
\* request issued through sendMemRequest or sendNocRequest has had its
\* completion handler run when the handler returns; no event is scheduled and
\* no request is outstanding.
C14_AtomicNothingDeferred ==
    atomicMode =>
        /\ ~executeCommandEvent.scheduled
        /\ memReqs = <<>> /\ nocReqs = <<>>
        /\ out.execWhen = -1
        /\ (RegisterAccessed /\ out.commandWritten) => out.executed
        /\ halted = "none" =>
              /\ out.memSent + out.nocSent = out.popped
              /\ out.pushed = out.popped
              /\ (StartedCommand => ~cmdInProgress /\ regFile.cmd = 0)

C14_Witness ==
    /\ atomicMode /\ RegisterAccessed /\ out.commandWritten
    /\ StartedCommand /\ out.cmdAtEntry = SEND
    /\ out.memSent = 2 /\ out.nocSent = 1 /\ out.popped = 3
    /\ halted = "none" /\ ~cmdInProgress

MemReqTypes == {"TRANSFER", "HEADER"}
NocPacketTypes ==
    {"MESSAGE", "READ_REQ", "WRITE_REQ", "CACHE_MEM_REQ", "CACHE_MEM_REQ_FUNC"}

\* how often kind occurs in a sequence of request kinds
CountOf(seq, kind) == Cardinality({i \in 1..Len(seq) : seq[i] = kind})

\* C15: every request carries exactly one sender-state record from
\* sendMemRequest or sendNocRequest until its completion, which pops and
\* deletes that record once: the records allocated and not deleted are the
\* ones of the requests in flight, a completed packet has none attached, and
\* in atomic mode every handler deletes the records it allocated, kind by
\* kind; in timed mode a completion deletes the one record of its request.
C15_SenderStateOnce ==
    /\ \A i \in 1..Len(memReqs) :
          /\ Len(memReqs[i].senderState) = 1
          /\ memReqs[i].senderState[1].type \in MemReqTypes
    /\ \A i \in 1..Len(nocReqs) :
          /\ Len(nocReqs[i].senderState) = 1
          /\ nocReqs[i].senderState[1].packetType \in NocPacketTypes
    /\ halted = "none" =>
          /\ senderStates = Len(memReqs) + Len(nocReqs)
          /\ out.attached = 0
          /\ Len(out.issued) = out.pushed /\ Len(out.freed) = out.popped
          /\ atomicMode =>
                \A k \in MemReqTypes \cup NocPacketTypes :
                    CountOf(out.issued, k) = CountOf(out.freed, k)
          /\ (~atomicMode /\ out.op \in {"completeMemRequest", "completeNocRequest"}) =>
                Len(out.freed) = 1
          /\ (~atomicMode /\ out.op \notin {"completeMemRequest", "completeNocRequest"}) =>
                \A i \in 1..Len(out.freed) : out.freed[i] = "CACHE_MEM_REQ_FUNC"

C15_Witness ==
    /\ ~atomicMode /\ out.op = "completeNocRequest" /\ halted = "none"
    /\ out.freed = <<"MESSAGE">> /\ senderStates = 0

\* the kinds of request whose record has been deleted in the last step
C15_WitnessAtomic ==
    /\ atomicMode /\ halted = "none"
    /\ out.freed = <<"MESSAGE", "TRANSFER", "HEADER">>
C15_WitnessRead == "READ_REQ" \in {out.freed[i] : i \in 1..Len(out.freed)}
C15_WitnessWrite == "WRITE_REQ" \in {out.freed[i] : i \in 1..Len(out.freed)}
C15_WitnessCache == out.freed = <<"CACHE_MEM_REQ">> /\ ~atomicMode
C15_WitnessFunctional == out.freed = <<"CACHE_MEM_REQ_FUNC">> /\ ~atomicMode

\* the one sub-unit entry point a type tag is dispatched to
NocHandlerOf(tag) ==
    CASE tag = "MESSAGE" -> "msgUnit.recvFromNoc"
      [] tag \in {"READ_REQ", "WRITE_REQ", "CACHE_MEM_REQ"} -> "memUnit.recvFromNoc"
      [] tag = "CACHE_MEM_REQ_FUNC" -> "memUnit.recvFunctionalFromNoc"
      [] OTHER -> "none"

\* C16: handleNocRequest hands a packet without error flag to exactly one
\* sub-unit, chosen by the type tag alone: MESSAGE to the Message Unit,
\* READ_REQ, WRITE_REQ and CACHE_MEM_REQ to the timed receive path of the
\* Memory Unit, CACHE_MEM_REQ_FUNC to its functional receive path.  A packet
\* with the error flag or with any other tag halts without reaching a
\* sub-unit.  Whether or not a command is in progress, the step leaves
\* cmdInProgress and the command register as they were.
C16_DispatchByTag ==
    [][out'.op = "handleNocRequest" =>
        /\ cmdInProgress' = cmdInProgress
        /\ regFile'.cmd = regFile.cmd
        /\ Calls("finishCommand")' = {} /\ ~out'.executed
        /\ IF out'.inError
           THEN halted' = "assert !isError" /\ out'.calls = <<>>
           ELSE IF NocHandlerOf(out'.inType) = "none"
           THEN halted' = "panic Unexpected NocPacketType" /\ out'.calls = <<>>
           ELSE halted' = "none" /\ out'.calls = <<NocHandlerOf(out'.inType)>>]_vars

C16_Witness ==
    /\ out.op = "handleNocRequest" /\ out.inType = "CACHE_MEM_REQ" /\ ~out.inError
    /\ cmdInProgress /\ out.calls = <<"memUnit.recvFromNoc">>

C16_WitnessOtherTag ==
    /\ out.op = "handleNocRequest" /\ out.inType = "INVALID" /\ ~out.inError
    /\ halted # "none"

\* C17: the tester has one retry slot.  A tick whose timed send the port
\* refuses leaves exactly the refused packet in the slot and schedules no
\* tick; while the slot is occupied no tick is scheduled and the only packet
\* offered to the port is the held one, as it was; the slot is cleared, and
\* the next tick scheduled, only by a retry whose re-attempt the port takes;
\* a retry with an empty slot fails the assertion.
C17_SingleRetrySlot ==
    [][/\ (out'.op = "tick" /\ out'.offered # <<>> /\ sentPkts' = sentPkts) =>
            /\ retryPkt = <<>>
            /\ retryPkt' = out'.offered /\ Len(out'.offered) = 1
            /\ ~tickEvent' /\ ~atomicMode
       /\ (retryPkt # <<>>) =>
            /\ ~tickEvent
            /\ out'.op = "recvRetry"
            /\ out'.offered = retryPkt
            /\ IF sentPkts' # sentPkts
               THEN /\ sentPkts' = Append(sentPkts, retryPkt[1])
                    /\ retryPkt' = <<>> /\ tickEvent'
               ELSE retryPkt' = retryPkt /\ ~tickEvent'
            /\ halted' = "none" /\ counter' = counter
       /\ (out'.op = "recvRetry" /\ retryPkt = <<>>) =>
            /\ halted' = "assert retryPkt"
            /\ out'.offered = <<>> /\ sentPkts' = sentPkts
            /\ retryPkt' = <<>> /\ tickEvent' = tickEvent]_vars

\* the sixth packet was held in the slot and is taken at a retry
C17_Witness ==
    /\ out.op = "recvRetry" /\ Len(sentPkts) = 6 /\ counter = 6
    /\ out.offered = <<sentPkts[6]>> /\ retryPkt = <<>> /\ tickEvent

C17_WitnessHeld ==
    /\ out.op = "recvRetry" /\ retryPkt # <<>> /\ out.offered = retryPkt
    /\ halted = "none"

C17_WitnessEmptySlot == out.op = "recvRetry" /\ halted = "assert retryPkt"

\* C18: WAKEUP_CORE activates the context of the attached CPU exactly when
\* there is one and its status is Suspended when the command executes; with
\* no context, or a context that is not suspended, the status stays as it
\* was; in all three cases the command is retired when executeCommand returns.
C18_WakeupCore ==
    (StartedCommand /\ out.cmdAtEntry = WAKEUP_CORE) =>
        /\ (Calls("threadContext.activate") # {}) <=>
              (threadContexts > 0 /\ out.tcAtEntry = "Suspended")
        /\ Cardinality(Calls("threadContext.activate")) <= 1
        /\ tcStatus = (IF threadContexts > 0 /\ out.tcAtEntry = "Suspended"
                       THEN "Active" ELSE out.tcAtEntry)
        /\ halted = "none"
        /\ Cardinality(Calls("finishCommand")) = 1
        /\ ~cmdInProgress /\ regFile.cmd = 0

C18_Witness ==
    /\ StartedCommand /\ out.cmdAtEntry = WAKEUP_CORE
    /\ threadContexts > 0 /\ out.tcAtEntry = "Suspended" /\ tcStatus = "Active"

C18_WitnessNoContext ==
    StartedCommand /\ out.cmdAtEntry = WAKEUP_CORE /\ threadContexts = 0

C18_WitnessNotSuspended ==
    /\ StartedCommand /\ out.cmdAtEntry = WAKEUP_CORE
    /\ threadContexts > 0 /\ out.tcAtEntry = "Active"

\* C19: cmdInProgress becomes true only in a step in which executeCommand
\* started a command, and false only in a step in which finishCommand ran,
\* which leaves the command register at 0; finishCommand runs at most once in
\* a step and only for a command in progress; invoked with no command in
\* progress it fails its assertion and retires nothing.
C19_RetireOnlyByFinish ==
    [][/\ (~cmdInProgress /\ cmdInProgress') =>
            out'.executed /\ out'.cmdAtEntry # IDLE /\ ~out'.busyAtEntry
       /\ (cmdInProgress /\ ~cmdInProgress') =>
            Calls("finishCommand")' # {} /\ regFile'.cmd = 0
       /\ Calls("finishCommand")' # {} =>
            /\ Cardinality(Calls("finishCommand")') = 1
            /\ cmdInProgress \/ (out'.executed /\ out'.cmdAtEntry # IDLE)
            /\ ~cmdInProgress' /\ regFile'.cmd = 0
       /\ (out'.op = "finishCommand" /\ ~cmdInProgress) =>
            /\ halted' = "assert cmdInProgress"
            /\ Calls("finishCommand")' = {}
            /\ regFile' = regFile /\ ~cmdInProgress']_vars

\* a sub-unit retires the command of timed mode
C19_Witness ==
    /\ out.op = "finishCommand" /\ Calls("finishCommand") # {}
    /\ ~cmdInProgress /\ regFile.cmd = 0 /\ memReqs # <<>>

\* the completion of a command that was retired already
C19_WitnessTwice ==
    /\ out.op \in {"completeMemRequest", "completeNocRequest"}
    /\ halted = "assert cmdInProgress"

C19_WitnessNoCommand == out.op = "finishCommand" /\ halted = "assert cmdInProgress"

CacheKinds == {"CACHE_MEM_REQ", "CACHE_MEM_REQ_FUNC"}

\* the kinds of the NoC requests completed in the last step
NocCompleted == {out.freed[i] : i \in 1..Len(out.freed)} \cap NocPacketTypes

\* the Memory Unit was told of a completion in the last step
MemUnitCompletions == Calls("memUnit.readComplete") \cup Calls("memUnit.writeComplete")

\* C20: handleCacheMemRequest, and the completion of a CACHE_MEM_REQ or
\* CACHE_MEM_REQ_FUNC request, leave cmdInProgress and the command register
\* as they were and invoke neither readComplete nor writeComplete nor
\* finishCommand, also while a command is in progress.  readComplete or
\* writeComplete is invoked only in a step that completes a NoC request of
\* another kind, and then once: writeComplete for a write packet,
\* readComplete for a read packet.
C20_CachePathIndependent ==
    [][/\ (\/ out'.op = "handleCacheMemRequest"
           \/ out'.op = "completeNocRequest" /\ NocCompleted' \subseteq CacheKinds) =>
            /\ cmdInProgress' = cmdInProgress
            /\ regFile'.cmd = regFile.cmd
            /\ MemUnitCompletions' = {}
            /\ Calls("finishCommand")' = {} /\ ~out'.executed
       /\ halted' = "none" =>
            /\ (MemUnitCompletions' # {}) <=> (NocCompleted' \ CacheKinds # {})
            /\ MemUnitCompletions' # {} =>
                 /\ Cardinality(MemUnitCompletions') = 1
                 /\ out'.complCmd \in {"ReadReq", "WriteReq"}
                 /\ (Calls("memUnit.writeComplete")' # {}) <=>
                        (out'.complCmd = "WriteReq")]_vars

\* a cache-memory completion while a WRITE command waits for the NoC
C20_Witness ==
    /\ out.op = "completeNocRequest" /\ out.freed = <<"CACHE_MEM_REQ">>
    /\ cmdInProgress /\ getCommand(Cur).opcode = WRITE /\ nocReqs # <<>>

C20_WitnessFunctional ==
    /\ out.op = "handleCacheMemRequest" /\ out.freed = <<"CACHE_MEM_REQ_FUNC">>
    /\ cmdInProgress /\ getCommand(Cur).opcode = READ

C20_WitnessRead ==
    /\ out.op = "completeNocRequest" /\ out.freed = <<"READ_REQ">>
    /\ Calls("memUnit.readComplete") # {}

\* C21: in timed mode no register access, of the CPU or of a peer, schedules
\* the execute-command event while an execution scheduled earlier has not
\* fired: schedule(executeCommandEvent) is not reached with the event pending.
C21_OneExecutionPending ==
    [][~(/\ ~atomicMode
         /\ executeCommandEvent.scheduled
         /\ RegisterAccessed' /\ out'.commandWritten)]_vars

\* the same, seen in the state the second schedule() leaves behind
C21_NoDoubleScheduleHalt == halted # "assert !scheduled"

\* the sixteen requests in the order of their generation: four writes to the
\* scratchpad at 0..3, four reads through the DTU's window at 0..3, four writes
\* through the window at 8..11, four reads of the scratchpad at 8..11
GeneratedPkts ==
    [i \in 1..NumTestPkts |->
        IF i <= 4 THEN [cmd |-> "WriteReq", addr |-> i - 1]
        ELSE IF i <= 8 THEN [cmd |-> "ReadReq", addr |-> DtuWindow + (i - 5)]
        ELSE IF i <= 12 THEN [cmd |-> "WriteReq", addr |-> DtuWindow + (i - 1)]
        ELSE [cmd |-> "ReadReq", addr |-> i - 5]]

\* the requests tick has generated so far
NumGenerated == IF counter < NumTestPkts THEN counter ELSE NumTestPkts

\* the tester has nothing left to do: no tick scheduled, nothing held
TesterDone == halted = "none" /\ ~tickEvent /\ retryPkt = <<>>

\* C22: whatever the port refuses and whenever it signals a retry, the requests
\* the port has accepted are the first of the sixteen generated ones, in the
\* order of generation and each once; the only generated request not yet
\* accepted is the one held for a retry, which is the next of the sequence; a
\* tester with nothing left to do has had all sixteen accepted.
C22_SequenceUnderBackpressure ==
    /\ Len(sentPkts) <= NumTestPkts
    /\ sentPkts = SubSeq(GeneratedPkts, 1, Len(sentPkts))
    /\ Len(sentPkts) + Len(retryPkt) = NumGenerated
    /\ retryPkt # <<>> => retryPkt[1] = GeneratedPkts[Len(sentPkts) + 1]
    /\ TesterDone => sentPkts = GeneratedPkts

\* the last of the sixteen requests was refused and is accepted on a retry
C22_WitnessAllAfterRetry ==
    /\ halted = "none"
    /\ out.op = "recvRetry"
    /\ out.offered = <<GeneratedPkts[NumTestPkts]>>
    /\ retryPkt = <<>>
    /\ sentPkts = GeneratedPkts

\* a request in the middle of the sequence is held after a refusal while tick
\* has already counted it
C22_WitnessHeld ==
    /\ retryPkt = <<GeneratedPkts[6]>>
    /\ counter = 6
    /\ Len(sentPkts) = 5

\* the tester has issued all its requests and has nothing left to do
TesterFinished ==
    /\ TesterDone
    /\ counter > NumTestPkts
    /\ sentPkts = GeneratedPkts

\* a refused request is held and no tick is scheduled
TesterWaiting == halted = "none" /\ retryPkt # <<>> /\ ~tickEvent

\* C23: at a port that in the end signals a retry for every packet it refused
\* and in the end takes it, the tester comes to rest with no tick scheduled and
\* nothing held, all sixteen requests issued; while a refused request is held
\* no tick is scheduled and nothing but a retry signal changes the tester.
C23_Termination ==
    /\ <>[]TesterFinished
    /\ [](retryPkt # <<>> => TesterWaiting)
    /\ [][TesterWaiting => out'.op = "recvRetry"]_vars

\* the tester at rest after the tick that found nothing left to generate
C23_WitnessFinished ==
    /\ TesterFinished
    /\ ~atomicMode
    /\ out.op = "tick"
    /\ out.offered = <<>>

\* a held request refused once more on a retry: the tester goes on waiting
C23_WitnessWaiting ==
    /\ TesterWaiting
    /\ out.op = "recvRetry"
    /\ out.offered = retryPkt

\* termination alone, which a port that never signals the retry defeats: under
\* StalledPortSpec the tester may wait for ever
C23_TerminationUnaided == <>TesterFinished

====
